---- MODULE Spec2Model ----
(***************************************************************************)
(* Model of controllers/harvestermachine_controller.go: the reconciliation *)
(* pass of a HarvesterMachine (Reconcile, ReconcileNormal, ReconcileDelete)*)
(* together with VM synthesis, image resolution, the cloud-init merge and   *)
(* the address extraction it drives.                                        *)
(*                                                                          *)
(* One HarvesterMachine, HvMachineName, is reconciled.  The Harvester side  *)
(* holds its VM, its cloud-init secret and the VM instances of its target   *)
(* namespace, some of which belong to the VM of another machine, OtherVM.   *)
(* Strings that the code splits are sequences of one-character strings.     *)
(***************************************************************************)
EXTENDS Naturals, Integers, Sequences, FiniteSets, TLC

\* ------------------------------------------------------------------ bounds
MaxInstances == 2
MaxAddresses == 2

\* the longest image reference resolved on its own
MaxRefLen == 4

\* the most fragments merged on their own
MaxFragments == 2

\* ------------------------------------------------------------ basic values
HvMachineName == "m1"
OtherVM == "m2"
TargetNamespace == "ns1"
IPs == {"10.0.0.5", "10.0.0.6"}
RandomIDs == {"x7k2q"}

NoErr == "nil"
ErrNotFound == "notfound"
ErrTransient == "transient"
ErrAlreadyExists == "alreadyexists"
ErrPanic == "panic"

IsNotFound(err) == err = ErrNotFound

EmptySeqs(S, n) == UNION {[1..k -> S] : k \in 0..n}

\* the element of a one-element set: Only({e(x) : x \in {v}}) is e with x
\* standing for the value of v, computed once
Only(S) == CHOOSE x \in S : TRUE

\* ------------------------------------------------------- cloud-init merge
cloudInitListSections ==
    {"package_update", "packages", "runcmd", "ssh_authorized_keys",
     "groups", "users", "write_files", "bootcmd"}

\* A cloud-init value: a list of items or a scalar (isList = FALSE, one item).
ListValue(items) == [isList |-> TRUE, items |-> items]
ScalarValue(s) == [isList |-> FALSE, items |-> <<s>>]

\* A fragment is raw text; what matters of the text is its syntax and, when
\* it is a mapping, the mapping it denotes.
\*   "yaml"    block-style YAML mapping (not JSON)
\*   "json"    a JSON object
\*   "null"    the JSON literal null
\*   "garbage" neither
Fragment(syntax, obj) == [syntax |-> syntax, obj |-> obj]
EmptyObj == [k \in {} |-> ListValue(<<>>)]

cloudInitBase ==
    Fragment("yaml",
        [k \in {"package_update", "packages", "runcmd"} |->
            CASE k = "package_update" -> ScalarValue("true")
              [] k = "packages" -> ListValue(<<"qemu-guest-agent">>)
              [] k = "runcmd" -> ListValue(<<"systemctl enable --now qemu-guest-agent.service">>)])

cloudInitSSHSection(publicKey) ==
    Fragment("yaml", [k \in {"ssh_authorized_keys"} |-> ListValue(<<publicKey>>)])

\* encoding/json.Unmarshal into a map[string]interface{}: only a JSON object
\* or null decodes; null leaves the (empty) map untouched.
JsonUnmarshal(cloudInit) ==
    CASE cloudInit.syntax = "json" -> [err |-> NoErr, obj |-> cloudInit.obj]
      [] cloudInit.syntax = "null" -> [err |-> NoErr, obj |-> EmptyObj]
      [] OTHER -> [err |-> "syntax", obj |-> EmptyObj]

\* lines 632-635: the error of json.Unmarshal is returned as it is; it tells
\* the offset within the text and names no fragment (0 stands for none).
NamedFragment(err) == 0

\* resCloudInitObj[k].([]interface{}) : the unchecked type assertion holds
\* only when the accumulator already has a list under k.
AssertIsList(res, k) == k \in DOMAIN res

\* the inner loop "for k, v := range cloudInitObj" over the keys not yet
\* visited; the keys of one fragment are distinct, so the visiting order
\* does not change the outcome.
RECURSIVE MergeKeys(_, _, _)
MergeKeys(res, obj, keys) ==
    IF keys = {} THEN [panicked |-> FALSE, res |-> res]
    ELSE LET k == CHOOSE x \in keys : TRUE
         IN IF k \in cloudInitListSections
            THEN IF AssertIsList(res, k)
                 THEN MergeKeys([x \in DOMAIN res |->
                                   IF x = k THEN Append(res[x], obj[k]) ELSE res[x]],
                                obj, keys \ {k})
                 ELSE [panicked |-> TRUE, res |-> res]
            ELSE MergeKeys(res, obj, keys \ {k})

RECURSIVE MergeFrom(_, _, _)
MergeFrom(cloudInits, i, res) ==
    IF i > Len(cloudInits)
    THEN [err |-> NoErr, panicked |-> FALSE, doc |-> res, header |-> "#cloud-config\n"]
    ELSE LET parsed == JsonUnmarshal(cloudInits[i])
         IN IF parsed.err # NoErr
            THEN [err |-> parsed.err, panicked |-> FALSE, doc |-> EmptyObj, header |-> ""]
            ELSE LET m == MergeKeys(res, parsed.obj, DOMAIN parsed.obj)
                 IN IF m.panicked
                    THEN [err |-> ErrPanic, panicked |-> TRUE, doc |-> EmptyObj, header |-> ""]
                    ELSE MergeFrom(cloudInits, i + 1, m.res)

mergeCloudInitData(cloudInits) == MergeFrom(cloudInits, 1, [k \in {} |-> <<>>])

\* ------------------------------------------------------- platform calls
\* One entry of a pass's record of the calls it issued on Harvester and on
\* the cluster-management store, with the error the call returned.
Call(op, err) == [op |-> op, err |-> err]

\* Calls issued only inside createVMFromHarvesterMachine.
ProvisioningOps ==
    {"image.list", "keypair.get", "bootstrap.get", "secret.get",
     "secret.create", "vm.create"}

HasCall(calls, op) == \E i \in 1..Len(calls) : calls[i].op = op
CountCalls(calls, op) == Cardinality({i \in 1..Len(calls) : calls[i].op = op})
CallIndex(calls, op) == CHOOSE i \in 1..Len(calls) : calls[i].op = op
CallErr(calls, op) == calls[CallIndex(calls, op)].err

\* ------------------------------------------------------ address extraction
ExternalIP(ip) == [Type |-> "ExternalIP", Address |-> ip]

\* a variant that reports only the first interface of an instance
NicAddressesFirstOnly(nics) ==
    IF nics = <<>> THEN <<>> ELSE <<ExternalIP(Head(nics))>>

RECURSIVE NicAddresses(_)
NicAddresses(nics) ==
    IF nics = <<>> THEN <<>>
    ELSE <<ExternalIP(Head(nics))>> \o NicAddresses(Tail(nics))

RECURSIVE InstanceAddresses(_)
InstanceAddresses(items) ==
    IF items = <<>> THEN <<>>
    ELSE NicAddresses(Head(items).Interfaces) \o InstanceAddresses(Tail(items))

\* VirtualMachineInstances(ns).List(ListOptions{}): every instance of the
\* namespace, whatever VM owns it.
ListVMInstances(vmis, vmName) == vmis

\* a variant that takes an empty listing for a VM without addresses
getIPAddressesFromVMIEmptyOk(existingVM, vmis, fault) ==
    IF fault = "vmi.list"
    THEN [ipAddresses |-> <<>>, err |-> ErrTransient,
          calls |-> <<Call("vmi.list", ErrTransient)>>]
    ELSE [ipAddresses |-> InstanceAddresses(ListVMInstances(vmis, existingVM.Name)),
          err |-> NoErr, calls |-> <<Call("vmi.list", NoErr)>>]

\* getIPAddressesFromVMI: vmis are the instances of existingVM.Namespace.
getIPAddressesFromVMI(existingVM, vmis, fault) ==
    IF fault = "vmi.list"
    THEN [ipAddresses |-> <<>>, err |-> ErrTransient,
          calls |-> <<Call("vmi.list", ErrTransient)>>]
    ELSE LET items == ListVMInstances(vmis, existingVM.Name)
         IN IF Len(items) = 0
            THEN [ipAddresses |-> <<>>, err |-> "noinstances",
                  calls |-> <<Call("vmi.list", NoErr)>>]
            ELSE [ipAddresses |-> InstanceAddresses(items), err |-> NoErr,
                  calls |-> <<Call("vmi.list", NoErr)>>]

\* --------------------------------------------------------- image resolution
\* strings.Split(s, "/") on a sequence of characters.
RECURSIVE SplitFrom(_, _, _)
SplitFrom(s, i, cur) ==
    IF i > Len(s) THEN <<cur>>
    ELSE IF s[i] = "/" THEN <<cur>> \o SplitFrom(s, i + 1, <<>>)
    ELSE SplitFrom(s, i + 1, Append(cur, s[i]))

Split(s) == SplitFrom(s, 1, <<>>)

hasVMIMageName(volume) == volume.ImageName # <<>>

\* locutil.Filter(volumes, hasVMIMageName)
Filter(volumes) == SelectSeq(volumes, hasVMIMageName)

NoImage == [Namespace |-> <<>>, Name |-> "", DisplayName |-> <<>>]

\* a variant that compares display names without regard to case
FirstMatchFolded(items, displayName) ==
    LET Fold(s) == [i \in 1..Len(s) |-> IF s[i] = "U" THEN "u" ELSE s[i]]
        m == SelectSeq(items, LAMBDA img : Fold(img.DisplayName) = Fold(displayName))
    IN IF m = <<>> THEN NoImage ELSE m[1]

\* lines 429-433: the first listed image whose Spec.DisplayName is displayName
RECURSIVE FirstMatch(_, _)
FirstMatch(items, displayName) ==
    IF items = <<>> THEN NoImage
    ELSE IF Head(items).DisplayName = displayName THEN Head(items)
    ELSE FirstMatch(Tail(items), displayName)

\* VirtualMachineImages(ns).List
ListImages(images, ns) == SelectSeq(images, LAMBDA img : img.Namespace = ns)

\* a variant that goes on with no image after a failed list call
getImageIgnoringListErr(imageVolumes, images, fault) ==
    IF imageVolumes = <<>>
    THEN [image |-> NoImage, err |-> ErrPanic, panicked |-> TRUE, calls |-> <<>>]
    ELSE IF Len(Split(imageVolumes[1].ImageName)) # 2
    THEN [image |-> NoImage, err |-> "malformed", panicked |-> FALSE, calls |-> <<>>]
    ELSE IF fault = "image.list"
    THEN [image |-> NoImage, err |-> NoErr, panicked |-> FALSE,
          calls |-> <<Call("image.list", ErrTransient)>>]
    ELSE [image |-> FirstMatch(ListImages(images, Split(imageVolumes[1].ImageName)[1]),
                               Split(imageVolumes[1].ImageName)[2]),
          err |-> NoErr, panicked |-> FALSE,
          calls |-> <<Call("image.list", NoErr)>>]

getImageFromHarvesterMachine(imageVolumes, images, fault) ==
    IF imageVolumes = <<>>
    THEN [image |-> NoImage, err |-> ErrPanic, panicked |-> TRUE, calls |-> <<>>]
    ELSE LET vmImageNameParts == Split(imageVolumes[1].ImageName)
         IN IF Len(vmImageNameParts) # 2
            THEN [image |-> NoImage, err |-> "malformed", panicked |-> FALSE,
                  calls |-> <<>>]
            ELSE IF fault = "image.list"
            THEN [image |-> NoImage, err |-> ErrTransient, panicked |-> FALSE,
                  calls |-> <<Call("image.list", ErrTransient)>>]
            ELSE LET foundImages == ListImages(images, vmImageNameParts[1])
                     match == FirstMatch(foundImages, vmImageNameParts[2])
                 IN IF Len(foundImages) = 0 \/ match = NoImage
                    THEN [image |-> NoImage, err |-> "imagenotfound",
                          panicked |-> FALSE,
                          calls |-> <<Call("image.list", NoErr)>>]
                    ELSE [image |-> match, err |-> NoErr, panicked |-> FALSE,
                          calls |-> <<Call("image.list", NoErr)>>]

\* buildPVCAnnotationFromImageID: dereferences imageVolume.VolumeSize.
buildPVCAnnotationFromImageID(imageVolume, pvcName, pvcNamespace, vmImage) ==
    IF imageVolume.VolumeSize = "nil"
    THEN [annotation |-> <<>>, err |-> ErrPanic, panicked |-> TRUE]
    ELSE [annotation |->
            <<[Name |-> pvcName, Namespace |-> pvcNamespace,
               ImageID |-> <<vmImage.Namespace, vmImage.Name>>,
               Storage |-> imageVolume.VolumeSize,
               StorageClassName |-> <<"longhorn-", vmImage.Name>>]>>,
          err |-> NoErr, panicked |-> FALSE]

\* ------------------------------------------------------------ VM synthesis
CloudInitSecretName(name) == <<name, "-cloud-init">>
PVCName(vmName, diskRandomID) == <<vmName, "-disk-0-", diskRandomID>>

\* the value Get returns next to a not-found error, and an absent VM
NoVM == [Name |-> "", Running |-> "nil"]
NoTemplate == [Hostname |-> ""]

\* getCloudInitData: the bootstrap secret named by the owner Machine.
getCloudInitData(in) ==
    IF in.fault = "bootstrap.get"
    THEN [userData |-> Fragment("garbage", EmptyObj), err |-> ErrTransient]
    ELSE IF in.bootstrap = "notfound"
    THEN [userData |-> Fragment("garbage", EmptyObj), err |-> ErrNotFound]
    ELSE IF in.bootstrap = "novalue"
    THEN [userData |-> Fragment("garbage", EmptyObj), err |-> "nouserdata"]
    ELSE [userData |-> in.userData, err |-> NoErr]

\* the template literal of buildVMTemplate (lines 513-621)
VMTemplate(name, pvcName, vmiLabels, keyName, cpu) ==
    [DiskNames |-> <<pvcName>>,
     SSHNames |-> <<keyName>>,
     Labels |-> vmiLabels,
     Hostname |-> name,
     Networks |-> <<[Name |-> "nic-1", NetworkName |-> "vlan1"]>>,
     BootDisk |-> [Name |-> "disk-0", ClaimName |-> pvcName],
     CloudInitDisk |-> [Name |-> "cloudinitdisk",
                        UserDataSecretRef |-> CloudInitSecretName(name)],
     CPU |-> [Cores |-> cpu, Sockets |-> cpu, Threads |-> cpu],
     AntiAffinity |-> [TopologyKey |-> "kubernetes.io/hostname",
                       vmNamePrefix |-> name]]

\* Secrets(ns).Create: fails when the call fails or the secret is there.
SecretCreateErr(secretExists, fault) ==
    IF fault = "secret.create" THEN ErrTransient
    ELSE IF secretExists THEN ErrAlreadyExists
    ELSE NoErr

\* buildVMTemplate.  secret is whether <name>-cloud-init exists on Harvester.
buildVMTemplate(name, secret, pvcName, vmiLabels, in) ==
    LET Fail(calls, err, sec, pan) ==
            [vmTemplate |-> NoTemplate, err |-> err, panicked |-> pan,
             calls |-> calls, secret |-> sec]
        keyErr == IF in.fault = "keypair.get" THEN ErrTransient
                  ELSE IF in.keypair = "notfound" THEN ErrNotFound ELSE NoErr
        c1 == <<Call("keypair.get", keyErr)>>
    IN IF keyErr # NoErr THEN Fail(c1, keyErr, secret, FALSE)
       ELSE
       LET ci == getCloudInitData(in)
           c2 == Append(c1, Call("bootstrap.get",
                     IF ci.err = "nouserdata" THEN NoErr ELSE ci.err))
       IN IF ci.err # NoErr THEN Fail(c2, ci.err, secret, FALSE)
          ELSE
          LET merged == mergeCloudInitData(
                  <<cloudInitBase, cloudInitSSHSection("ssh-rsa"), ci.userData>>)
          IN IF merged.panicked THEN Fail(c2, ErrPanic, secret, TRUE)
             ELSE IF merged.err # NoErr THEN Fail(c2, merged.err, secret, FALSE)
             ELSE
             LET getErr == IF in.fault = "secret.get" THEN ErrTransient
                           ELSE IF secret THEN NoErr ELSE ErrNotFound
                 createErr == SecretCreateErr(secret, in.fault)
                 c3 == c2 \o <<Call("secret.get", getErr),
                               Call("secret.create", createErr)>>
             IN IF createErr # NoErr THEN Fail(c3, createErr, secret, FALSE)
                ELSE IF ~in.memoryValid THEN Fail(c3, ErrPanic, TRUE, TRUE)
                ELSE [vmTemplate |-> VMTemplate(name, pvcName, vmiLabels,
                                                "key", in.cpu),
                      err |-> NoErr, panicked |-> FALSE, calls |-> c3,
                      secret |-> TRUE]

\* createVMFromHarvesterMachine.  plat is [vm, secret] on Harvester.
createVMFromHarvesterMachine(name, plat, in) ==
    LET vmName == name
        vmLabels == [creator |-> "harvester", vmName |-> vmName,
                     vmNamePrefix |-> vmName]
        vmiLabels == vmLabels
        pvcName == PVCName(vmName, in.randomID)
        Fail(calls, err, sec, pan) ==
            [err |-> err, panicked |-> pan, calls |-> calls,
             plat |-> [plat EXCEPT !.secret = sec], submitted |-> <<>>]
        imageVolumes == Filter(in.volumes)
        img == getImageFromHarvesterMachine(imageVolumes, in.images, in.fault)
    IN IF img.err # NoErr THEN Fail(img.calls, img.err, plat.secret, img.panicked)
       ELSE
       LET pvc == buildPVCAnnotationFromImageID(imageVolumes[1], pvcName,
                                                TargetNamespace, img.image)
       IN IF pvc.err # NoErr THEN Fail(img.calls, pvc.err, plat.secret, pvc.panicked)
          ELSE
          LET tpl == buildVMTemplate(name, plat.secret, pvcName, vmiLabels, in)
              c1 == img.calls \o tpl.calls
          IN IF tpl.err # NoErr THEN Fail(c1, tpl.err, tpl.secret, tpl.panicked)
             ELSE
             LET ubuntuVM == [Name |-> vmName, Namespace |-> TargetNamespace,
                              PVCAnnotation |-> pvc.annotation,
                              Labels |-> vmLabels, Running |-> "true",
                              Template |-> tpl.vmTemplate]
                 createErr == IF in.fault = "vm.create" THEN ErrTransient
                              ELSE IF in.fault = "race" \/ plat.vm # NoVM
                                   THEN ErrAlreadyExists
                              ELSE NoErr
                 vmAfter == IF createErr = NoErr \/ in.fault = "race"
                            THEN [Name |-> vmName, Running |-> "true"]
                            ELSE plat.vm
             IN [err |-> createErr, panicked |-> FALSE,
                 calls |-> Append(c1, Call("vm.create", createErr)),
                 plat |-> [vm |-> vmAfter, secret |-> tpl.secret],
                 submitted |-> <<ubuntuVM>>]

\* ------------------------------------------------------------------ state
VARIABLES
    hvMachine,   \* the HarvesterMachine as held by the cluster-management store
    owner,       \* what the pass reads of the owner Machine and Cluster
    harvester,   \* Harvester: the VM named after the machine, its secret
    pass,        \* the record of the latest reconciliation pass
    fn           \* a helper function applied on its own: arguments and result

vars == <<hvMachine, owner, harvester, pass, fn>>

\* ------------------------------------------------------------ the two paths
\* a variant that takes no request for paused
IsPausedNever(ow) == FALSE

\* line 227: annotations.IsPaused(cluster, hvMachine)
IsPaused(ow) == ow.paused

\* a variant that lets every lookup error through
LookupFailsNever(err) == FALSE

\* line 251: a lookup error other than not-found ends the pass
LookupFails(err) == err # NoErr /\ ~IsNotFound(err)

\* line 258: (existingVM != nil) && (existingVM.Name == hvMachine.Name)
VMExists(existingVM, name) == existingVM.Name = name

\* lines 276-283: the error of createVMFromHarvesterMachine is logged and
\* the pass returns ctrl.Result{}, nil
ReturnAfterCreate(createErr) == NoErr

\* a variant that never stops to add the finalizer
NeedsFinalizerNever(mem) == FALSE

\* line 233: !ContainsFinalizer(hvMachine, MachineFinalizer) &&
\* hvMachine.DeletionTimestamp.IsZero()
NeedsFinalizer(mem) == ~mem.finalizer /\ ~mem.deleting

\* a variant that assigns the flag from the extracted list
ReadyAfterAssigned(ready, ipAddresses) == Len(ipAddresses) > 0

\* lines 268-270: if len(ipAddresses) > 0 { hvMachine.Status.Ready = true }
ReadyAfter(ready, ipAddresses) == IF Len(ipAddresses) > 0 THEN TRUE ELSE ready

Outcome(step, mem, plat, calls, err, requeue, panicked, createErr, submitted) ==
    [step |-> step, mem |-> mem, plat |-> plat, calls |-> calls, err |-> err,
     requeue |-> requeue, panicked |-> panicked, createErr |-> createErr,
     submitted |-> submitted]

ReconcileNormal(mem, ow, plat, clientNil, in) ==
    LET Ret(step, m, calls, err) ==
            Outcome(step, m, plat, calls, err, FALSE, FALSE, NoErr, <<>>)
        Panic(step, m, calls) ==
            Outcome(step, m, plat, calls, ErrPanic, FALSE, TRUE, NoErr, <<>>)
    IN IF IsPaused(ow) THEN Ret("paused", mem, <<>>, NoErr)
       ELSE IF NeedsFinalizer(mem)
       THEN Ret("addfinalizer", [mem EXCEPT !.finalizer = TRUE], <<>>, NoErr)
       ELSE IF ~ow.infrastructureReady THEN Ret("infra", mem, <<>>, NoErr)
       ELSE IF ~ow.dataSecretSet THEN Ret("bootstrap", mem, <<>>, NoErr)
       ELSE IF clientNil THEN Panic("lookup", mem, <<>>)
       ELSE
       LET getErr == IF in.fault = "vm.get" THEN ErrTransient
                     ELSE IF plat.vm = NoVM THEN ErrNotFound ELSE NoErr
           existingVM == IF getErr = NoErr THEN plat.vm ELSE NoVM
           c1 == <<Call("vm.get", getErr)>>
       IN IF LookupFails(getErr) THEN Ret("lookuperr", mem, c1, getErr)
          ELSE IF VMExists(existingVM, HvMachineName)
          THEN IF existingVM.Running = "nil" THEN Panic("observe", mem, c1)
               ELSE IF existingVM.Running = "true"
               THEN Only({
                        IF ips.err # NoErr
                        THEN Ret("observe", mem, c1 \o ips.calls, ips.err)
                        ELSE Ret("observe",
                                 [mem EXCEPT !.addresses = ips.ipAddresses,
                                             !.ready = ReadyAfter(@, ips.ipAddresses)],
                                 c1 \o ips.calls, NoErr) :
                        ips \in {getIPAddressesFromVMI(existingVM, in.vmis,
                                                       in.fault)}})
               ELSE Ret("observe", mem, c1, NoErr)
          ELSE
          Only({
             IF cr.panicked
             THEN Outcome("provision", mem, cr.plat, c1 \o cr.calls, ErrPanic,
                          FALSE, TRUE, cr.err, cr.submitted)
             ELSE Outcome("provision", mem, cr.plat, c1 \o cr.calls,
                          ReturnAfterCreate(cr.err), FALSE, FALSE, cr.err,
                          cr.submitted) :
             cr \in {createVMFromHarvesterMachine(HvMachineName, plat, in)}})

\* the error of a Delete call on Harvester
DeleteErr(present, fault, op) ==
    IF fault = op THEN ErrTransient
    ELSE IF ~present THEN ErrNotFound ELSE NoErr

\* a variant that takes not-found for a failure
DeleteAbortsOnAnyErr(err) == err # NoErr

\* a variant that goes on after a failed delete
DeleteAbortsNever(err) == FALSE

\* lines 684-690, 694-700: any error but not-found ends the delete pass
DeleteAborts(err) == err # NoErr /\ ~IsNotFound(err)

\* a variant that reports a removal even when there was nothing to remove
RemoveFinalizerAlwaysOk(mem) ==
    [ok |-> TRUE, mem |-> [mem EXCEPT !.finalizer = FALSE]]

\* a variant that reports the removal and leaves the finalizer in place
RemoveFinalizerKeeps(mem) == [ok |-> mem.finalizer, mem |-> mem]

\* controllerutil.RemoveFinalizer: reports whether the list changed
RemoveFinalizer(mem) ==
    [ok |-> mem.finalizer, mem |-> [mem EXCEPT !.finalizer = FALSE]]

ReconcileDelete(mem, plat, clientNil, in) ==
    IF clientNil
    THEN Outcome("delete", mem, plat, <<>>, ErrPanic, FALSE, TRUE, NoErr, <<>>)
    ELSE
    LET secErr == DeleteErr(plat.secret, in.fault, "secret.delete")
        c1 == <<Call("secret.delete", secErr)>>
        p1 == IF secErr = NoErr THEN [plat EXCEPT !.secret = FALSE] ELSE plat
    IN IF DeleteAborts(secErr)
       THEN Outcome("delete", mem, p1, c1, secErr, TRUE, FALSE, NoErr, <<>>)
       ELSE
       LET vmErr == DeleteErr(plat.vm # NoVM, in.fault, "vm.delete")
           c2 == Append(c1, Call("vm.delete", vmErr))
           p2 == IF vmErr = NoErr THEN [p1 EXCEPT !.vm = NoVM] ELSE p1
       IN IF DeleteAborts(vmErr)
          THEN Outcome("delete", mem, p2, c2, vmErr, TRUE, FALSE, NoErr, <<>>)
          ELSE
          LET rm == RemoveFinalizer(mem)
          IN IF ~rm.ok
             THEN Outcome("delete", rm.mem, p2, c2, "finalizer", FALSE, FALSE,
                          NoErr, <<>>)
             ELSE Outcome("delete", rm.mem, p2, c2, NoErr, FALSE, FALSE,
                          NoErr, <<>>)

\* ------------------------------------------------------ inputs of a pass
\* Image references, as character sequences: namespace "n", display name "u".
RefUbuntu == <<"n", "/", "u">>
RefUpper == <<"n", "/", "U">>
RefNoSlash == <<"u">>
RefThreeParts == <<"n", "/", "u", "/", "u">>
RefOtherNs == <<"o", "/", "u">>

Volume(imageName, volumeSize) == [ImageName |-> imageName, VolumeSize |-> volumeSize]

VolumeLists ==
    {<<>>,
     <<Volume(<<>>, "10Gi")>>,
     <<Volume(RefUbuntu, "10Gi")>>,
     <<Volume(RefUbuntu, "nil")>>,
     <<Volume(RefNoSlash, "10Gi")>>,
     <<Volume(RefThreeParts, "10Gi")>>,
     <<Volume(RefUpper, "10Gi")>>,
     <<Volume(<<>>, "10Gi"), Volume(RefUbuntu, "10Gi")>>,
     <<Volume(RefOtherNs, "10Gi"), Volume(RefUbuntu, "10Gi")>>}

Image(ns, name, displayName) ==
    [Namespace |-> ns, Name |-> name, DisplayName |-> displayName]

\* the VirtualMachineImages Harvester holds
ImageCatalogs ==
    {<<>>,
     <<Image(<<"n">>, "image-2bd", <<"d">>), Image(<<"n">>, "image-7xk", <<"u">>)>>}

\* the bootstrap payload under the secret's "value" key
UserDatas ==
    {Fragment("yaml", [k \in {"runcmd"} |-> ListValue(<<"kubeadm join">>)]),
     Fragment("json", [k \in {"packages"} |-> ListValue(<<"a">>)])}

DefaultUserData == Fragment("yaml", [k \in {"runcmd"} |-> ListValue(<<"kubeadm join">>)])

\* the VirtualMachineInstances of the target namespace
NicLists == EmptySeqs(IPs, MaxAddresses)
Instances == [Owner : {HvMachineName, OtherVM}, Interfaces : NicLists]

RECURSIVE TotalNics(_)
TotalNics(items) ==
    IF items = <<>> THEN 0 ELSE Len(Head(items).Interfaces) + TotalNics(Tail(items))

VMILists == {l \in EmptySeqs(Instances, MaxInstances) : TotalNics(l) <= MaxAddresses}

DefaultIn ==
    [fault |-> "none", vmis |-> <<>>,
     volumes |-> <<Volume(RefUbuntu, "10Gi")>>,
     images |-> <<Image(<<"n">>, "image-7xk", <<"u">>)>>,
     keypair |-> "found", bootstrap |-> "ok", userData |-> DefaultUserData,
     memoryValid |-> TRUE, cpu |-> 2, randomID |-> "x7k2q"]

ProvisionFaults ==
    {"vm.get", "image.list", "keypair.get", "bootstrap.get",
     "secret.get", "secret.create", "vm.create", "race"}

\* what the request and Harvester hold, with no call failing; or a sound
\* request and one call failing.  The steps of the branch run one after the
\* other, each consulting its own input only when the earlier ones succeeded.
ProvisionInputs ==
    {[DefaultIn EXCEPT !.volumes = v, !.images = c, !.keypair = k,
                       !.bootstrap = "ok", !.userData = u, !.memoryValid = mv] :
        v \in VolumeLists, c \in ImageCatalogs, k \in {"found", "notfound"},
        u \in UserDatas, mv \in BOOLEAN}
    \cup
    {[DefaultIn EXCEPT !.volumes = v, !.images = c, !.keypair = k,
                       !.bootstrap = b] :
        v \in VolumeLists, c \in ImageCatalogs, k \in {"found", "notfound"},
        b \in {"novalue", "notfound"}}
    \cup
    {[DefaultIn EXCEPT !.fault = f] : f \in ProvisionFaults}

ObserveInputs ==
    {[DefaultIn EXCEPT !.fault = f, !.vmis = l] :
        f \in {"none", "vmi.list"}, l \in VMILists}
    \cup {[DefaultIn EXCEPT !.fault = "vm.get"]}

LookupInputs == {[DefaultIn EXCEPT !.fault = f] : f \in {"none", "vm.get"}}

DeleteInputs ==
    {[DefaultIn EXCEPT !.fault = f] : f \in {"none", "secret.delete", "vm.delete"}}

\* how the part of Reconcile before the dispatch (lines 98-181) ends
Preludes ==
    {"ok", "get.err", "helper.err", "ownerMachine.err", "ownerMachine.nil",
     "ownerCluster.err", "ownerCluster.nil", "hvCluster.err", "hvSecret.err",
     "hvClient.err"}

\* ------------------------------------------------------------ Reconcile
NoMachine ==
    [exists |-> FALSE, finalizer |-> FALSE, deleting |-> TRUE, ready |-> FALSE,
     addresses |-> <<>>]

PassRecord(kind, prelude, o, rerr, statusErr, patchErr, pre, in) ==
    [kind |-> kind, prelude |-> prelude, step |-> o.step, calls |-> o.calls,
     submitted |-> o.submitted, createErr |-> o.createErr, err |-> o.err,
     rerr |-> rerr, requeue |-> o.requeue, panicked |-> o.panicked,
     statusErr |-> statusErr, patchErr |-> patchErr, pre |-> pre,
     mem |-> o.mem,
     volumes |-> IF o.step = "provision" THEN in.volumes ELSE <<>>,
     listed |-> IF HasCall(o.calls, "vmi.list") /\ CallErr(o.calls, "vmi.list") = NoErr
                THEN ListVMInstances(in.vmis, HvMachineName) ELSE <<>>]

NoPass ==
    PassRecord("none", "ok",
               Outcome("none", NoMachine, [vm |-> NoVM, secret |-> FALSE], <<>>,
                       NoErr, FALSE, FALSE, NoErr, <<>>),
               NoErr, "skipped", "skipped", NoMachine, DefaultIn)

\* r.Client.Status().Update(ctx, hvMachine), lines 118-123
StatusUpdate(stored, mem, fails) ==
    IF fails THEN stored
    ELSE [stored EXCEPT !.ready = mem.ready, !.addresses = mem.addresses]

\* patchHelper.Patch(ctx, hvMachine), lines 125-133: the difference to the
\* object as first read, finalizers and status included
Patch(stored, mem, fails) ==
    IF fails THEN stored
    ELSE [stored EXCEPT !.finalizer = mem.finalizer, !.ready = mem.ready,
                        !.addresses = mem.addresses]

\* a variant in which a persistence error replaces the error of the pass
DeferredErrOverrides(rerr, statusErr, patchErr) ==
    IF statusErr # NoErr THEN "status.update"
    ELSE IF patchErr # NoErr THEN "patch"
    ELSE rerr

\* lines 120-122, 130-132: a persistence error is reported only when the pass
\* itself had none
DeferredErr(rerr, statusErr, patchErr) ==
    IF rerr # NoErr THEN rerr
    ELSE IF statusErr # NoErr THEN "status.update"
    ELSE IF patchErr # NoErr THEN "patch"
    ELSE NoErr

\* a variant that takes no request for marked
IsDeletingNever(mem) == FALSE

\* line 194: !hvMachine.DeletionTimestamp.IsZero()
IsDeleting(mem) == mem.deleting

\* a variant that looks at the pause before the deletion timestamp and sends
\* a paused request down the normal path
DispatchPausedFirst(mem, ow) ==
    IF IsPaused(ow) THEN "normal"
    ELSE IF IsDeleting(mem) THEN "delete" ELSE "normal"

\* lines 194-198: the deletion timestamp alone picks the path
Dispatch(mem, ow) == IF IsDeleting(mem) THEN "delete" ELSE "normal"

\* One whole pass of Reconcile for HvMachineName: the new stored machine, the
\* new Harvester state and the record of the pass.
ReconcilePass(stored, ow, plat, prelude, in, statusFails, patchFails) ==
    LET Skip(step, err) ==
            [hvMachine |-> stored, harvester |-> plat,
             pass |-> PassRecord("skipped", prelude,
                         Outcome(step, stored, plat, <<>>, err, FALSE, FALSE,
                                 NoErr, <<>>),
                         err, "skipped", "skipped", stored, in)]
        statusErr == IF statusFails THEN ErrTransient ELSE NoErr
        patchErr == IF patchFails THEN ErrTransient ELSE NoErr
        Deferred(kind, outcome) ==
            Only({[hvMachine |-> Patch(StatusUpdate(stored, o.mem, statusFails),
                                       o.mem, patchFails),
                   harvester |-> o.plat,
                   pass |-> PassRecord(kind, prelude, o,
                               DeferredErr(o.err, statusErr, patchErr),
                               statusErr, patchErr, stored, in)] :
                  o \in {outcome}})
        Early(step, err) ==
            Deferred("early", Outcome(step, stored, plat, <<>>, err, FALSE,
                                      FALSE, NoErr, <<>>))
    IN IF ~stored.exists THEN Skip("get", NoErr)
       ELSE IF prelude = "get.err" THEN Skip("get", ErrTransient)
       ELSE IF prelude = "helper.err" THEN Skip("helper", ErrTransient)
       ELSE IF prelude = "ownerMachine.err" THEN Early("ownerMachine", ErrTransient)
       ELSE IF prelude = "ownerMachine.nil" THEN Early("ownerMachine", NoErr)
       ELSE IF prelude = "ownerCluster.err" THEN Early("ownerCluster", ErrTransient)
       ELSE IF prelude = "ownerCluster.nil" THEN Early("ownerCluster", NoErr)
       ELSE IF prelude = "hvCluster.err" THEN Early("hvCluster", ErrTransient)
       ELSE IF prelude = "hvSecret.err" THEN Early("hvSecret", ErrTransient)
       ELSE
       LET clientNil == prelude = "hvClient.err"
       IN IF Dispatch(stored, ow) = "delete"
          THEN Deferred("delete", ReconcileDelete(stored, plat, clientNil, in))
          ELSE Deferred("normal", ReconcileNormal(stored, ow, plat, clientNil, in))

\* the inputs a pass can consult, given where it goes with none failing
InputsFor(probe) ==
    IF probe.step = "provision" THEN ProvisionInputs
    ELSE IF HasCall(probe.calls, "vmi.list") THEN ObserveInputs
    ELSE IF HasCall(probe.calls, "vm.get") THEN LookupInputs
    ELSE IF HasCall(probe.calls, "secret.delete") THEN DeleteInputs
    ELSE {DefaultIn}

\* no helper function is applied on its own
NoFn ==
    [name |-> "none", done |-> FALSE, volumes |-> <<>>, images |-> <<>>,
     fault |-> "none", cloudInits |-> <<>>,
     resolved |-> [image |-> NoImage, err |-> NoErr, panicked |-> FALSE,
                   calls |-> <<>>],
     merged |-> [err |-> NoErr, panicked |-> FALSE, doc |-> EmptyObj,
                 header |-> ""]]

\* ---------------------------------------------------------------- actions
VMStates == {NoVM} \cup [Name : {HvMachineName}, Running : {"true", "false", "nil"}]

Init ==
    /\ hvMachine = [exists |-> TRUE, finalizer |-> FALSE, deleting |-> FALSE,
                    ready |-> FALSE, addresses |-> <<>>]
    /\ owner = [paused |-> FALSE, infrastructureReady |-> FALSE,
                dataSecretSet |-> FALSE]
    /\ harvester \in [vm : VMStates, secret : BOOLEAN]
    /\ pass = NoPass
    /\ fn = NoFn

\* the scheduler runs one pass of Reconcile
Reconcile ==
    /\ pass.kind = "none"
    /\ \E prelude \in Preludes, statusFails \in BOOLEAN, patchFails \in BOOLEAN :
         \E probe \in {ReconcilePass(hvMachine, owner, harvester, prelude,
                                      DefaultIn, FALSE, FALSE).pass} :
           \E in \in InputsFor(probe) :
             \E r \in {ReconcilePass(hvMachine, owner, harvester, prelude, in,
                                     statusFails, patchFails)} :
                /\ hvMachine' = r.hvMachine
                /\ harvester' = r.harvester
                /\ pass' = r.pass
                /\ UNCHANGED <<owner, fn>>

\* the scheduler takes the result of the pass
ReturnToScheduler ==
    /\ pass.kind # "none"
    /\ pass' = NoPass
    /\ UNCHANGED <<hvMachine, owner, harvester, fn>>

\* the owner sets the deletion timestamp
MarkDeleted ==
    /\ pass.kind = "none"
    /\ hvMachine.exists /\ ~hvMachine.deleting
    /\ hvMachine' = [hvMachine EXCEPT !.deleting = TRUE]
    /\ UNCHANGED <<owner, harvester, pass, fn>>

\* the store purges a deleted machine none of whose finalizers is left
Purge ==
    /\ pass.kind = "none"
    /\ hvMachine.exists /\ hvMachine.deleting /\ ~hvMachine.finalizer
    /\ hvMachine' = NoMachine
    /\ UNCHANGED <<owner, harvester, pass, fn>>

\* the pause annotation or the Cluster's paused field is set or cleared
SetPaused ==
    /\ pass.kind = "none"
    /\ owner' = [owner EXCEPT !.paused = ~@]
    /\ UNCHANGED <<hvMachine, harvester, pass, fn>>

InfrastructureBecomesReady ==
    /\ pass.kind = "none"
    /\ ~owner.infrastructureReady
    /\ owner' = [owner EXCEPT !.infrastructureReady = TRUE]
    /\ UNCHANGED <<hvMachine, harvester, pass, fn>>

BootstrapDataSet ==
    /\ pass.kind = "none"
    /\ ~owner.dataSecretSet
    /\ owner' = [owner EXCEPT !.dataSecretSet = TRUE]
    /\ UNCHANGED <<hvMachine, harvester, pass, fn>>

\* somebody else creates, starts, stops or removes the VM or the secret
HarvesterChange ==
    /\ pass.kind = "none"
    /\ \E h \in [vm : VMStates, secret : BOOLEAN] :
         /\ h # harvester
         /\ harvester' = h
    /\ UNCHANGED <<hvMachine, owner, pass, fn>>

Next ==
    \/ Reconcile
    \/ ReturnToScheduler
    \/ MarkDeleted
    \/ Purge
    \/ SetPaused
    \/ InfrastructureBecomesReady
    \/ BootstrapDataSet
    \/ HarvesterChange

Spec == Init /\ [][Next]_vars

TypeOK ==
    /\ hvMachine.exists \in BOOLEAN
    /\ pass.kind \in {"none", "skipped", "early", "normal", "delete"}

\* ---------------------------------------------------------- fair retries
\* a pass of a machine marked for deletion none of whose calls, on the store
\* or on Harvester, fails
FairDeletePass ==
    /\ pass.kind = "none"
    /\ hvMachine.exists
    /\ hvMachine.deleting
    /\ \E r \in {ReconcilePass(hvMachine, owner, harvester, "ok", DefaultIn,
                                FALSE, FALSE)} :
          /\ hvMachine' = r.hvMachine
          /\ harvester' = r.harvester
          /\ pass' = r.pass
          /\ UNCHANGED <<owner, fn>>

\* the scheduler keeps retrying and takes every result
LiveSpec == Spec /\ WF_vars(ReturnToScheduler) /\ SF_vars(FairDeletePass)

\* ----------------------------------------- helper functions on their own
\* Image resolution and the cloud-init merge are functions of their
\* arguments; FunctionSpec draws the arguments and applies the function once.

\* image references: every string of up to MaxRefLen of these characters
RefChars == {"n", "u", "U", "/"}
ImageRefs == EmptySeqs(RefChars, MaxRefLen) \ {<<>>}

\* spec.volumes: volumes without an image, then the first volume naming an
\* image, then possibly another one naming an image
ResolveVolumeLists ==
    {<<>>, <<Volume(<<>>, "10Gi")>>}
    \cup {lead \o <<Volume(ref, "10Gi")>> \o rest :
            lead \in {<<>>, <<Volume(<<>>, "10Gi")>>},
            ref \in ImageRefs,
            rest \in {<<>>, <<Volume(RefUbuntu, "10Gi")>>, <<Volume(RefNoSlash, "10Gi")>>}}

\* what Harvester holds of images, over all namespaces
ResolveCatalogs ==
    {<<>>,
     <<Image(<<"n">>, "image-7xk", <<"u">>)>>,
     <<Image(<<"n">>, "image-2bd", <<"U">>), Image(<<"n">>, "image-7xk", <<"u">>),
       Image(<<"n">>, "image-9zz", <<"u">>)>>,
     <<Image(<<"u">>, "image-4aa", <<"u">>), Image(<<"n">>, "image-5bb", <<"U">>),
       Image(<<"n", "n">>, "image-6cc", <<"u">>)>>}

ResolveCalls ==
    {[NoFn EXCEPT !.name = "getImage", !.volumes = v, !.images = c, !.fault = f] :
        v \in ResolveVolumeLists, c \in ResolveCatalogs, f \in {"none", "image.list"}}

\* cloud-init fragments: JSON objects with list sections, with a scalar
\* under a list section and with a key outside the list sections; block
\* YAML; the literal null; text that is neither
MergeObjects ==
    {[k \in {"packages"} |-> ListValue(<<"a">>)],
     [k \in {"packages"} |-> ListValue(<<"b">>)],
     [k \in {"runcmd"} |-> ListValue(<<"c">>)],
     [k \in {"packages"} |-> ScalarValue("x")],
     [k \in {"hostname"} |-> ScalarValue("h")],
     EmptyObj}

CloudInitFragments ==
    {Fragment("json", o) : o \in MergeObjects}
    \cup {Fragment("yaml", [k \in {"packages"} |-> ListValue(<<"a">>)]),
          Fragment("null", EmptyObj), Fragment("garbage", EmptyObj)}

MergeCalls ==
    {[NoFn EXCEPT !.name = "merge", !.cloudInits = l] :
        l \in EmptySeqs(CloudInitFragments, MaxFragments)}

FunctionInit ==
    /\ hvMachine = NoMachine
    /\ owner = [paused |-> FALSE, infrastructureReady |-> FALSE,
                dataSecretSet |-> FALSE]
    /\ harvester = [vm |-> NoVM, secret |-> FALSE]
    /\ pass = NoPass
    /\ fn \in ResolveCalls \cup MergeCalls

\* lines 330-331: getImageFromHarvesterMachine on the volumes naming an image
ApplyGetImage ==
    /\ fn.name = "getImage"
    /\ ~fn.done
    /\ fn' = [fn EXCEPT !.done = TRUE,
                        !.resolved = getImageFromHarvesterMachine(
                                         Filter(fn.volumes), fn.images, fn.fault)]
    /\ UNCHANGED <<hvMachine, owner, harvester, pass>>

\* line 474: mergeCloudInitData(cloudInits...)
ApplyMerge ==
    /\ fn.name = "merge"
    /\ ~fn.done
    /\ fn' = [fn EXCEPT !.done = TRUE, !.merged = mergeCloudInitData(fn.cloudInits)]
    /\ UNCHANGED <<hvMachine, owner, harvester, pass>>

FunctionNext ==
    \/ ApplyGetImage
    \/ ApplyMerge

FunctionSpec == FunctionInit /\ [][FunctionNext]_vars

\* ------------------------------------------------------------- properties
NormalPass == pass.kind = "normal"
DeletePass == pass.kind = "delete"

LookedUp(err) ==
    /\ HasCall(pass.calls, "vm.get")
    /\ CallErr(pass.calls, "vm.get") = err

\* the four preconditions of the normal path held and the lookup said not-found
ProvisioningDue ==
    /\ NormalPass
    /\ ~owner.paused
    /\ pass.pre.finalizer
    /\ owner.infrastructureReady
    /\ owner.dataSecretSet
    /\ LookedUp(ErrNotFound)

NoCallFailed ==
    \A i \in 1..Len(pass.calls) :
        pass.calls[i].op # "vm.get" => pass.calls[i].err = NoErr

\* nothing is wrong with the request or with what Harvester holds for it
RequestSound ==
    /\ NoCallFailed
    /\ ~pass.panicked
    /\ pass.createErr \notin {"malformed", "imagenotfound", "nouserdata"}

\* C1: a normal pass of a request that is not paused, has the finalizer,
\* infrastructure ready and bootstrap data set, and whose lookup says
\* not-found, issues exactly one VM create, whose definition has the boot disk
\* bound to the generated claim name, the boot-config volume bound to
\* <machine-name>-cloud-init and an anti-affinity label naming the machine.
C1_OneCreateWithDefinition ==
    (ProvisioningDue /\ RequestSound) =>
        /\ CountCalls(pass.calls, "vm.create") = 1
        /\ Len(pass.submitted) = 1
        /\ \E id \in RandomIDs :
             pass.submitted[1].Template.BootDisk.ClaimName = PVCName(HvMachineName, id)
        /\ pass.submitted[1].Template.CloudInitDisk.UserDataSecretRef
               = <<HvMachineName, "-cloud-init">>
        /\ pass.submitted[1].Template.AntiAffinity.vmNamePrefix = HvMachineName

\* C2: in every pass a call of the provisioning branch (the secret create and
\* the VM create among them) comes after a lookup of the VM that said
\* not-found; a pass whose lookup finds the VM issues none of them, and a pass
\* whose lookup fails otherwise issues none of them and returns that error.
C2_CreateOnlyAfterNotFound ==
    pass.kind # "none" =>
        /\ \A i \in 1..Len(pass.calls) :
             pass.calls[i].op \in ProvisioningOps =>
                \E j \in 1..(i - 1) :
                    /\ pass.calls[j].op = "vm.get"
                    /\ pass.calls[j].err = ErrNotFound
        /\ LookedUp(NoErr) =>
             /\ \A i \in 1..Len(pass.calls) : pass.calls[i].op \notin ProvisioningOps
             /\ pass.submitted = <<>>
        /\ LookedUp(ErrTransient) =>
             /\ \A i \in 1..Len(pass.calls) : pass.calls[i].op \notin ProvisioningOps
             /\ pass.submitted = <<>>
             /\ pass.err = ErrTransient
             /\ pass.rerr = ErrTransient

C2_Witness ==
    /\ NormalPass
    /\ LookedUp(ErrNotFound)
    /\ HasCall(pass.calls, "image.list")
    /\ HasCall(pass.calls, "keypair.get")

\* C3: a pass that finds the secret <machine-name>-cloud-init already there
\* and no VM still reaches the VM create call.
C3_RetryReachesCreate ==
    (ProvisioningDue /\ RequestSound /\ harvester.secret) =>
        HasCall(pass.calls, "vm.create")

\* C4: a normal pass whose provisioning branch fails returns a non-nil error.
C4_ProvisionFailureReturned ==
    (NormalPass /\ pass.step = "provision" /\ pass.createErr # NoErr) =>
        /\ pass.err # NoErr
        /\ pass.rerr # NoErr

DeletesAnswered ==
    /\ HasCall(pass.calls, "secret.delete")
    /\ \A i \in 1..Len(pass.calls) : pass.calls[i].err \in {NoErr, ErrNotFound}

\* C5: a delete pass of a request with the finalizer, whose delete calls
\* answer success or not-found, returns no error and removes the finalizer,
\* whether or not the secret and the VM were there.
C5_DeleteToleratesAbsent ==
    (DeletePass /\ pass.pre.finalizer /\ DeletesAnswered) =>
        /\ HasCall(pass.calls, "vm.delete")
        /\ pass.err = NoErr
        /\ ~pass.mem.finalizer
        /\ pass.patchErr = NoErr => ~hvMachine.finalizer
        /\ (pass.statusErr = NoErr /\ pass.patchErr = NoErr) => pass.rerr = NoErr
        /\ harvester = [vm |-> NoVM, secret |-> FALSE]

C5_Witness ==
    /\ DeletePass
    /\ pass.pre.finalizer
    /\ pass.calls = <<Call("secret.delete", ErrNotFound), Call("vm.delete", ErrNotFound)>>
    /\ pass.rerr = NoErr
    /\ ~hvMachine.finalizer

\* C6: in a delete pass the secret delete comes first; the finalizer is
\* removed only when both deletes said success or not-found; a delete that
\* fails otherwise ends the pass (after a failed secret delete no VM delete is
\* issued), leaves the finalizer and returns the error with a requeue.
C6_DeleteOrderAndAbort ==
    (DeletePass /\ ~pass.panicked) =>
        /\ pass.calls[1].op = "secret.delete"
        /\ \A i \in 1..Len(pass.calls) : pass.calls[i].op = "vm.delete" => i = 2
        /\ (pass.pre.finalizer /\ ~pass.mem.finalizer) =>
             /\ Len(pass.calls) = 2
             /\ \A i \in 1..2 : pass.calls[i].err \in {NoErr, ErrNotFound}
        /\ (\E i \in 1..Len(pass.calls) : pass.calls[i].err = ErrTransient) =>
             /\ pass.calls[Len(pass.calls)].err = ErrTransient
             /\ (pass.calls[1].err = ErrTransient => Len(pass.calls) = 1)
             /\ pass.mem.finalizer = pass.pre.finalizer
             /\ hvMachine.finalizer = pass.pre.finalizer
             /\ pass.err = ErrTransient
             /\ pass.rerr = ErrTransient
             /\ pass.requeue

C6_Witness ==
    /\ DeletePass
    /\ pass.pre.finalizer
    /\ pass.calls = <<Call("secret.delete", ErrTransient)>>
    /\ hvMachine.finalizer
    /\ pass.requeue

\* C7: a delete pass of a request without the finalizer returns an error.
C7_DeleteWithoutFinalizerFails ==
    (DeletePass /\ ~pass.pre.finalizer) =>
        /\ pass.err # NoErr
        /\ pass.rerr # NoErr

C7_Witness ==
    /\ DeletePass
    /\ ~pass.pre.finalizer
    /\ DeletesAnswered
    /\ HasCall(pass.calls, "vm.delete")
    /\ pass.err = "finalizer"

\* C8: once a request that has the finalizer is marked for deletion, whatever
\* the normal path had reached, the finalizer is eventually released, given
\* fair retries and delete calls that eventually answer.
C8_DeletionCompletes ==
    (hvMachine.exists /\ hvMachine.deleting /\ hvMachine.finalizer)
        ~> ~hvMachine.finalizer

C8_Witness ==
    /\ DeletePass
    /\ pass.pre.finalizer
    /\ ~hvMachine.finalizer
    /\ ~owner.infrastructureReady
    /\ owner.paused

\* the position before the first interface of the i-th listed instance
RECURSIVE Offset(_, _)
Offset(items, i) ==
    IF i = 1 THEN 0 ELSE Offset(items, i - 1) + Len(items[i - 1].Interfaces)

Listed ==
    /\ NormalPass
    /\ HasCall(pass.calls, "vmi.list")
    /\ CallErr(pass.calls, "vmi.list") = NoErr
    /\ pass.listed # <<>>

\* C9: when the VM exists and runs, the address list is set to one external
\* entry per interface of each listed instance, in the listed order and with
\* repetitions kept, and ready is set when the list is not empty; one instance
\* reporting 10.0.0.5 gives ready and [{external, 10.0.0.5}].
C9_AddressesFromInterfaces ==
    Listed =>
        /\ Len(pass.mem.addresses) = TotalNics(pass.listed)
        /\ \A i \in 1..Len(pass.listed) :
             \A j \in 1..Len(pass.listed[i].Interfaces) :
                pass.mem.addresses[Offset(pass.listed, i) + j]
                    = [Type |-> "ExternalIP", Address |-> pass.listed[i].Interfaces[j]]
        /\ pass.mem.addresses # <<>> => pass.mem.ready
        /\ pass.statusErr = NoErr =>
             /\ hvMachine.addresses = pass.mem.addresses
             /\ hvMachine.ready = pass.mem.ready
        /\ (Len(pass.listed) = 1 /\ pass.listed[1].Interfaces = <<"10.0.0.5">>) =>
             /\ pass.mem.ready
             /\ pass.mem.addresses = <<[Type |-> "ExternalIP", Address |-> "10.0.0.5"]>>

C9_Witness ==
    /\ Listed
    /\ Len(pass.listed) = 2
    /\ pass.listed[1].Interfaces = <<"10.0.0.6", "10.0.0.6">>
    /\ ~pass.pre.ready
    /\ hvMachine.ready
    /\ Len(hvMachine.addresses) = 2

\* the instances of the listing that belong to the machine's own VM
OwnInstances(items) == SelectSeq(items, LAMBDA inst : inst.Owner = HvMachineName)

\* C10: the addresses of a machine's status come only from the instances of
\* its own VM; an instance of another VM of the namespace adds no address and
\* does not make the machine ready.
C10_OnlyOwnInstances ==
    Listed =>
        /\ Len(pass.mem.addresses) = TotalNics(OwnInstances(pass.listed))
        /\ (pass.mem.ready /\ ~pass.pre.ready) =>
             TotalNics(OwnInstances(pass.listed)) > 0

\* the pass recorded in the next state read the VM as present and running
\* and listed its instances
ObservedRunning ==
    /\ NormalPass
    /\ pass.step = "observe"
    /\ LookedUp(NoErr)
    /\ harvester.vm.Name = HvMachineName
    /\ harvester.vm.Running = "true"
    /\ HasCall(pass.calls, "vmi.list")
    /\ CallErr(pass.calls, "vmi.list") = NoErr

\* C11: over every step, while the machine is in the store, ready never goes
\* from true to false, neither in the store nor in the object a pass works
\* on; it goes from false to true only in a pass that found the VM, read it
\* as running and extracted at least one address.
C11_ReadyOnlyRises ==
    [][/\ (hvMachine.ready /\ hvMachine'.exists) => hvMachine'.ready
       /\ pass'.kind # "none" =>
            /\ pass'.pre.ready => pass'.mem.ready
            /\ (pass'.mem.ready /\ ~pass'.pre.ready) =>
                 /\ ObservedRunning'
                 /\ Len(pass'.mem.addresses) > 0
       /\ (hvMachine'.ready /\ ~hvMachine.ready) =>
            /\ ObservedRunning'
            /\ Len(hvMachine'.addresses) > 0]_vars

C11_Witness ==
    /\ ObservedRunning
    /\ ~pass.pre.ready
    /\ hvMachine.ready
    /\ Len(hvMachine.addresses) = 1

\* C12: no pass empties an address list that was not empty, in the store or
\* in the object it works on; a pass that reads the VM as running and whose
\* listed instances report no interface leaves the addresses and ready as
\* they were before the pass.
C12_AddressesNeverCleared ==
    pass.kind # "none" =>
        /\ pass.pre.addresses # <<>> =>
             /\ pass.mem.addresses # <<>>
             /\ hvMachine.addresses # <<>>
        /\ (ObservedRunning /\ Listed /\ TotalNics(pass.listed) = 0) =>
             /\ pass.mem.addresses = pass.pre.addresses
             /\ pass.mem.ready = pass.pre.ready
             /\ hvMachine.addresses = pass.pre.addresses
             /\ hvMachine.ready = pass.pre.ready

\* C13: every Harvester call of the normal path, the secret create and the VM
\* create among them, is issued by a pass that read the machine from the
\* store with the finalizer on it; the pass that adds the finalizer issues no
\* Harvester call and submits no VM.
C13_FinalizerBeforeCreate ==
    pass.kind # "none" =>
        /\ (NormalPass /\ pass.calls # <<>>) => pass.pre.finalizer
        /\ \A i \in 1..Len(pass.calls) :
             pass.calls[i].op \in ProvisioningOps => pass.pre.finalizer
        /\ pass.submitted # <<>> => pass.pre.finalizer
        /\ (pass.mem.finalizer /\ ~pass.pre.finalizer) =>
             /\ pass.step = "addfinalizer"
             /\ pass.calls = <<>>
             /\ pass.submitted = <<>>
             /\ pass.err = NoErr

\* the finalizer is added although provisioning would otherwise be due
C13_Witness ==
    /\ NormalPass
    /\ pass.step = "addfinalizer"
    /\ ~pass.pre.finalizer
    /\ hvMachine.finalizer
    /\ owner.infrastructureReady
    /\ owner.dataSecretSet
    /\ harvester.vm = NoVM
    /\ pass.calls = <<>>

\* the pass got as far as ReconcileNormal
Dispatched == NormalPass /\ pass.prelude \in {"ok", "hvClient.err"}

\* C14: the normal path checks paused, finalizer, infrastructure ready and
\* bootstrap data set in that order; the first one unmet ends the pass with
\* no error and no Harvester call, and the VM is looked up only when all four
\* hold. A paused pass does not add the finalizer; a pass without the
\* finalizer adds it even when infrastructure is not ready or bootstrap data
\* is unset.
C14_PreconditionOrder ==
    Dispatched =>
        /\ owner.paused =>
             /\ pass.step = "paused"
             /\ pass.mem = pass.pre
             /\ hvMachine = pass.pre
        /\ (~owner.paused /\ ~pass.pre.finalizer) =>
             /\ pass.step = "addfinalizer"
             /\ pass.mem = [pass.pre EXCEPT !.finalizer = TRUE]
        /\ (~owner.paused /\ pass.pre.finalizer /\ ~owner.infrastructureReady) =>
             /\ pass.step = "infra"
             /\ pass.mem = pass.pre
        /\ (~owner.paused /\ pass.pre.finalizer /\ owner.infrastructureReady
                /\ ~owner.dataSecretSet) =>
             /\ pass.step = "bootstrap"
             /\ pass.mem = pass.pre
        /\ pass.step \in {"paused", "addfinalizer", "infra", "bootstrap"} =>
             /\ pass.err = NoErr
             /\ ~pass.panicked
             /\ pass.calls = <<>>
             /\ pass.submitted = <<>>
        /\ HasCall(pass.calls, "vm.get") =>
             /\ ~owner.paused
             /\ pass.pre.finalizer
             /\ owner.infrastructureReady
             /\ owner.dataSecretSet
        /\ (~owner.paused /\ pass.pre.finalizer /\ owner.infrastructureReady
                /\ owner.dataSecretSet /\ pass.prelude = "ok") =>
             /\ pass.calls # <<>>
             /\ pass.calls[1].op = "vm.get"

\* paused, and every later precondition unmet: nothing is added
C14_Witness ==
    /\ Dispatched
    /\ owner.paused
    /\ ~pass.pre.finalizer
    /\ ~owner.infrastructureReady
    /\ ~owner.dataSecretSet
    /\ ~hvMachine.finalizer
    /\ pass.step = "paused"

\* the pass read the machine from the store (line 99 returned no error)
Fetched == pass.kind # "none" /\ pass.step # "get"

\* the pass also set up its patch helper, so the deferred function of lines
\* 115-134 is in place
PatchHelperReady == Fetched /\ pass.step # "helper"

PersistenceAttempted == pass.statusErr # "skipped" /\ pass.patchErr # "skipped"

\* C15 as stated: every pass that fetched the request attempts the status
\* update and the patch.
C15_PersistenceAfterFetch == Fetched => PersistenceAttempted

\* C15: after every pass that fetched the request and set up its patch
\* helper, the status update and the patch are both attempted whatever the
\* pass returned; with a nil outcome the first failing persistence call gives
\* the error of the pass, and a pass that failed reports its own error.
C15_PersistenceAfterHelper ==
    PatchHelperReady =>
        /\ PersistenceAttempted
        /\ (pass.err = NoErr /\ pass.statusErr # NoErr) => pass.rerr = "status.update"
        /\ (pass.err = NoErr /\ pass.statusErr = NoErr /\ pass.patchErr # NoErr) =>
             pass.rerr = "patch"
        /\ (pass.err = NoErr /\ pass.statusErr = NoErr /\ pass.patchErr = NoErr) =>
             pass.rerr = NoErr
        /\ pass.err # NoErr => pass.rerr = pass.err
        /\ pass.patchErr = NoErr =>
             /\ hvMachine.finalizer = pass.mem.finalizer
             /\ hvMachine.ready = pass.mem.ready
             /\ hvMachine.addresses = pass.mem.addresses

\* an early return with nil whose patch fails: the finalizer is not stored
\* and the pass reports the patch error
C15_Witness ==
    /\ PatchHelperReady
    /\ pass.step = "addfinalizer"
    /\ pass.err = NoErr
    /\ pass.statusErr = NoErr
    /\ pass.patchErr = ErrTransient
    /\ pass.rerr = "patch"
    /\ ~hvMachine.finalizer

\* image resolution was applied to volume lists and a catalog
Resolved == fn.name = "getImage" /\ fn.done

\* the positions of the slashes of a reference
Slashes(ref) == {p \in 1..Len(ref) : ref[p] = "/"}

\* what resolving ref against the images, with the list call answering or
\* not, has to give
ResolvesTo(ref, images, fault, out) ==
    IF Cardinality(Slashes(ref)) # 1
    THEN /\ out.err = "malformed"
         /\ out.image = NoImage
         /\ out.calls = <<>>
    ELSE LET p == CHOOSE q \in Slashes(ref) : TRUE
             ns == SubSeq(ref, 1, p - 1)
             displayName == SubSeq(ref, p + 1, Len(ref))
             matches == {k \in 1..Len(images) :
                            /\ images[k].Namespace = ns
                            /\ images[k].DisplayName = displayName}
         IN IF fault = "image.list"
            THEN out.err = ErrTransient /\ out.image = NoImage
            ELSE IF matches = {}
            THEN out.err = "imagenotfound" /\ out.image = NoImage
            ELSE /\ out.err = NoErr
                 /\ \E k \in matches :
                      /\ out.image = images[k]
                      /\ \A j \in matches : k <= j

\* C16: image resolution goes by the first volume that names an image and by
\* no later one: a reference that has not exactly two slash-separated
\* segments gives the reference-format error, a namespace without images or
\* without an image of exactly that display name (case kept) gives not-found,
\* and otherwise the image of that namespace with that display name is
\* returned.
C16_ImageResolution ==
    Resolved =>
        \A i \in 1..Len(fn.volumes) :
            (/\ fn.volumes[i].ImageName # <<>>
             /\ \A j \in 1..(i - 1) : fn.volumes[j].ImageName = <<>>) =>
                /\ ~fn.resolved.panicked
                /\ ResolvesTo(fn.volumes[i].ImageName, fn.images, fn.fault,
                              fn.resolved)

\* a later volume names a sound reference, the first one an image whose
\* display name differs by case only
C16_Witness ==
    /\ Resolved
    /\ fn.volumes = <<Volume(<<>>, "10Gi"), Volume(<<"n", "/", "U">>, "10Gi"),
                      Volume(RefUbuntu, "10Gi")>>
    /\ fn.images = <<Image(<<"n">>, "image-7xk", <<"u">>)>>
    /\ fn.fault = "none"
    /\ fn.resolved.err = "imagenotfound"

\* the merge was applied to fragments each of which is a JSON object
MergedObjects ==
    /\ fn.name = "merge"
    /\ fn.done
    /\ \A i \in 1..Len(fn.cloudInits) : fn.cloudInits[i].syntax = "json"

\* the entries the fragments from the i-th on hold under key k, in order
RECURSIVE EntriesFrom(_, _, _)
EntriesFrom(cloudInits, i, k) ==
    IF i > Len(cloudInits) THEN <<>>
    ELSE (IF k \in DOMAIN cloudInits[i].obj THEN cloudInits[i].obj[k].items ELSE <<>>)
         \o EntriesFrom(cloudInits, i + 1, k)

\* the entries a merged document holds under key k, in order
RECURSIVE Flattened(_)
Flattened(values) ==
    IF values = <<>> THEN <<>> ELSE Head(values).items \o Flattened(Tail(values))

\* C17: merging fragments drops no list entry: under every key of the list
\* sections that a fragment carries the merged document holds the entries of
\* all fragments, those of earlier fragments first; {"packages":["a"]} and
\* {"packages":["b"]} merge to packages = ["a","b"].
C17_MergeKeepsListEntries ==
    MergedObjects =>
        /\ ~fn.merged.panicked
        /\ fn.merged.err = NoErr
        /\ \A k \in cloudInitListSections :
             EntriesFrom(fn.cloudInits, 1, k) # <<>> =>
                /\ k \in DOMAIN fn.merged.doc
                /\ Flattened(fn.merged.doc[k]) = EntriesFrom(fn.cloudInits, 1, k)

\* the steps of synthesis that call Harvester or the store and must succeed
SynthesisSteps == <<"image.list", "keypair.get", "bootstrap.get", "secret.create">>

\* the place of a call of the provisioning branch in the order of the code
StepOrder(op) ==
    CASE op = "image.list" -> 1
      [] op = "keypair.get" -> 2
      [] op = "bootstrap.get" -> 3
      [] op = "secret.get" -> 4
      [] op = "secret.create" -> 5
      [] op = "vm.create" -> 6

\* C18: a VM is submitted only by a VM create call that comes after image
\* resolution, the SSH key fetch, the bootstrap-data fetch and the secret
\* create of the same pass, all without error, and after the claim
\* annotation and the merge, which issue no call; a step runs only if the
\* one before it succeeded, so a failed call is the last call of the pass and
\* a failed synthesis issues no VM create and submits nothing.
C18_CreateOnlyAfterSynthesis ==
    (NormalPass /\ pass.step = "provision") =>
        /\ \A i \in 1..Len(pass.calls) :
             (pass.calls[i].op \in ProvisioningOps \ {"secret.get"}
                 /\ pass.calls[i].err # NoErr) => i = Len(pass.calls)
        /\ \A i, j \in 1..Len(pass.calls) :
             (pass.calls[i].op \in ProvisioningOps /\ pass.calls[j].op \in ProvisioningOps
                 /\ i < j) =>
                StepOrder(pass.calls[i].op) < StepOrder(pass.calls[j].op)
        /\ HasCall(pass.calls, "vm.create") =>
             \A k \in 1..Len(SynthesisSteps) :
                /\ HasCall(pass.calls, SynthesisSteps[k])
                /\ CallErr(pass.calls, SynthesisSteps[k]) = NoErr
        /\ pass.submitted # <<>> =>
             /\ HasCall(pass.calls, "vm.create")
             /\ pass.submitted[1].Template # NoTemplate
             /\ pass.submitted[1].PVCAnnotation # <<>>
        /\ (pass.createErr # NoErr /\ ~HasCall(pass.calls, "vm.create")) =>
             pass.submitted = <<>>
        /\ pass.createErr \in {"malformed", "imagenotfound", "nouserdata", "syntax",
                               ErrPanic} =>
             /\ ~HasCall(pass.calls, "secret.create")
             /\ ~HasCall(pass.calls, "vm.create")

\* the SSH key fetch fails after the image was resolved: nothing follows it
C18_Witness ==
    /\ NormalPass
    /\ pass.step = "provision"
    /\ pass.calls = <<Call("vm.get", ErrNotFound), Call("image.list", NoErr),
                      Call("keypair.get", ErrTransient)>>
    /\ pass.createErr = ErrTransient
    /\ pass.submitted = <<>>

\* C19: a pass that finds the VM, reads it as running and gets an empty
\* list of instances returns an error and leaves ready and the addresses as
\* they were, in the object it works on and in the store.
C19_NoInstancesIsError ==
    (ObservedRunning /\ pass.listed = <<>>) =>
        /\ pass.err = "noinstances"
        /\ pass.rerr = "noinstances"
        /\ pass.mem.ready = pass.pre.ready
        /\ pass.mem.addresses = pass.pre.addresses
        /\ hvMachine.ready = pass.pre.ready
        /\ hvMachine.addresses = pass.pre.addresses

\* the instances are gone after the machine became ready with two addresses
C19_Witness ==
    /\ ObservedRunning
    /\ pass.listed = <<>>
    /\ pass.err = "noinstances"
    /\ pass.pre.ready
    /\ Len(hvMachine.addresses) = 2
    /\ hvMachine.ready

\* the merge was applied to a list of fragments
Merged == fn.name = "merge" /\ fn.done

\* the first fragment that is no mapping at all
FirstUnparseable(cloudInits, i) ==
    /\ i \in 1..Len(cloudInits)
    /\ cloudInits[i].syntax = "garbage"
    /\ \A j \in 1..(i - 1) : cloudInits[j].syntax \in {"json", "null"}

\* a fragment brings a list section whose accumulator holds no list: an
\* earlier fragment put a scalar there, or nothing is there yet
NonListAccumulator(cloudInits) ==
    \E i \in 1..Len(cloudInits) :
        /\ \A j \in 1..i : cloudInits[j].syntax \in {"json", "null"}
        /\ \E k \in DOMAIN cloudInits[i].obj \cap cloudInitListSections :
             \A j \in 1..(i - 1) :
                k \in DOMAIN cloudInits[j].obj => ~cloudInits[j].obj[k].isList

\* C20: the merge never crashes; when a fragment is no mapping it returns an
\* error that names the index of that fragment, and no document; when the
\* accumulator of a list section holds a non-list value it returns an error
\* and no document.
C20_MergeFailsWithErrorValue ==
    Merged =>
        /\ ~fn.merged.panicked
        /\ \A i \in 1..Len(fn.cloudInits) :
             FirstUnparseable(fn.cloudInits, i) =>
                /\ fn.merged.err # NoErr
                /\ fn.merged.doc = EmptyObj
                /\ fn.merged.header = ""
                /\ NamedFragment(fn.merged.err) = i
        /\ NonListAccumulator(fn.cloudInits) =>
             /\ fn.merged.err \notin {NoErr, ErrPanic}
             /\ fn.merged.doc = EmptyObj
             /\ fn.merged.header = ""

DeleteOps == {"secret.delete", "vm.delete"}

\* C21: a pass of a request that carries the deletion timestamp issues delete
\* calls only, submits no VM and does not put the finalizer back; a pass of a
\* request without it issues no delete call; the timestamp, once set, stays
\* for as long as the machine is in the store, so no later pass creates the
\* VM or the secret.
C21_PathsNeverMix ==
    [][/\ (hvMachine.exists /\ hvMachine.deleting /\ hvMachine'.exists) =>
            hvMachine'.deleting
       /\ (pass'.kind # "none" /\ pass'.pre.exists) =>
            /\ pass'.pre.deleting =>
                 /\ pass'.kind # "normal"
                 /\ \A i \in 1..Len(pass'.calls) : pass'.calls[i].op \in DeleteOps
                 /\ pass'.submitted = <<>>
                 /\ pass'.mem.finalizer => pass'.pre.finalizer
                 /\ hvMachine'.finalizer => pass'.pre.finalizer
                 /\ harvester'.vm \in {NoVM, harvester.vm}
                 /\ harvester'.secret => harvester.secret
            /\ ~pass'.pre.deleting =>
                 /\ pass'.kind # "delete"
                 /\ \A i \in 1..Len(pass'.calls) : pass'.calls[i].op \notin DeleteOps
                 /\ pass'.mem.finalizer \/ ~pass'.pre.finalizer]_vars

\* a marked request without finalizer, not paused, infrastructure ready and
\* bootstrap data set, no VM: the pass deletes and neither adds the finalizer
\* nor provisions
C21_Witness ==
    /\ DeletePass
    /\ pass.pre.deleting
    /\ ~pass.pre.finalizer
    /\ ~owner.paused
    /\ owner.infrastructureReady
    /\ owner.dataSecretSet
    /\ pass.calls = <<Call("secret.delete", ErrNotFound), Call("vm.delete", ErrNotFound)>>
    /\ ~hvMachine.finalizer
    /\ harvester.vm = NoVM

\* C22: a pass of a request that carries the deletion timestamp takes the
\* delete path also while the request or its cluster is paused: it issues the
\* secret delete and, with both deletes answering success or not-found,
\* the VM delete, leaves neither on Harvester, removes the finalizer and
\* returns no error.
C22_PausedDoesNotGateDelete ==
    (pass.kind \in {"normal", "delete"} /\ pass.pre.deleting /\ owner.paused) =>
        /\ DeletePass
        /\ pass.step = "delete"
        /\ ~pass.panicked => HasCall(pass.calls, "secret.delete")
        /\ (pass.pre.finalizer /\ DeletesAnswered) =>
             /\ HasCall(pass.calls, "vm.delete")
             /\ harvester = [vm |-> NoVM, secret |-> FALSE]
             /\ ~pass.mem.finalizer
             /\ pass.err = NoErr
             /\ pass.patchErr = NoErr => ~hvMachine.finalizer

\* paused, the secret and a running VM are there: both are deleted and the
\* finalizer is released
C22_Witness ==
    /\ DeletePass
    /\ owner.paused
    /\ pass.pre.finalizer
    /\ pass.calls = <<Call("secret.delete", NoErr), Call("vm.delete", NoErr)>>
    /\ harvester = [vm |-> NoVM, secret |-> FALSE]
    /\ ~hvMachine.finalizer
    /\ pass.rerr = NoErr

\* a provisioning pass of a request none of whose volumes names an image
ProvisionedWithoutImage ==
    /\ NormalPass
    /\ pass.step = "provision"
    /\ \A i \in 1..Len(pass.volumes) : pass.volumes[i].ImageName = <<>>

\* C23: a provisioning pass of a request none of whose volumes names an image
\* does not crash; synthesis ends with an error, no secret is created and no
\* VM create is issued.
C23_NoImageVolumeIsError ==
    ProvisionedWithoutImage =>
        /\ ~pass.panicked
        /\ pass.createErr \notin {NoErr, ErrPanic}
        /\ ~HasCall(pass.calls, "secret.create")
        /\ ~HasCall(pass.calls, "vm.create")
        /\ pass.submitted = <<>>

====
